---- MODULE Spec2Model ----
(***************************************************************************)
(* Model of the Poe API pipeline (src/src/pipelines/poe_api_pipeline.py):  *)
(* the request builder, the retrying transport, the SSE stream reader, the *)
(* model catalog refresher and pipe, which ties them together; and of the  *)
(* Jira tools (src/src/tools/jira_api_guru.py): _make_jira_request, the    *)
(* event emitter and the frame every jira_* tool shares.                   *)
(*                                                                         *)
(* JSON values are written as strings: "null", "true", "false" and opaque  *)
(* scalars such as "v1"; a Python dict is a function from its keys.        *)
(***************************************************************************)
EXTENDS Integers, Sequences, FiniteSets, TLC

VARIABLES
    MAX_RETRIES,    \* valves.MAX_RETRIES
    POE_API_KEY,    \* valves.POE_API_KEY
    DEBUG_MODE,     \* valves.DEBUG_MODE
    user_key,       \* UserValves.POE_API_KEY of the caller
    bearer,         \* the token in the Authorization header pipe built
    pipelines,      \* self.pipelines, the model catalog
    previous,       \* the catalog as it was before the latest refresh
    fetched,        \* what GET /models answered in the latest refresh
    escaped,        \* the exception the latest refresh let out, if any
    pc,             \* position of the running call
    body,           \* the caller map handed to pipe / _build_request_body
    model_id,       \* the resolved model id
    messages,       \* the message list
    request_body,   \* the payload built by _build_request_body
    built,          \* payloads built so far from (model_id, messages, body)
    is_streaming,   \* pipe's local is_streaming
    attempt,        \* loop variable of _make_request
    posts,          \* number of requests.post calls issued by this call
    inflight,       \* number of outbound requests not yet answered
    sleeps,         \* the time.sleep delays taken, in order
    outcomes,       \* what each requests.post ended in, in order
    last_error,     \* _make_request's last_error
    response,       \* the response returned by _make_request
    result,         \* what pipe returned to the host
    lines,          \* the lines response.iter_lines() will deliver
    cursor,         \* number of lines already taken from iter_lines
    emitted,        \* fragments yielded by _stream_response, in order
    gen,            \* state of the generator returned by _stream_response
    conn,           \* state of the HTTP connection behind the response
    models,         \* the local list models of a running _refresh_models
    rpos,           \* number of upstream entries that refresh has looked at
    rpc,            \* position of the running _refresh_models
    observed,       \* what a reader of self.pipelines saw since the latest refresh began
    pat,            \* Tools.valves.pat, the tool-level Jira token
    user_pat,       \* __user__["valves"]["user_pat"], "absent" when not there
    base_url,       \* Tools.valves.base_url
    tool,           \* the jira_* tool that is running or ran last
    args,           \* the arguments of that tool call
    has_emitter,    \* whether the call was given an __event_emitter__
    jpc,            \* position of the running jira_* tool
    events,         \* the events handed to __event_emitter__ by this call
    jsent,          \* HTTP requests issued by this call
    jresult,        \* the latest call of _make_jira_request and its outcome
    tool_result     \* what the tool returned

valveVars == <<MAX_RETRIES, POE_API_KEY, DEBUG_MODE>>
buildVars == <<body, model_id, messages, request_body, built>>
transportVars == <<attempt, posts, inflight, sleeps, outcomes, last_error, response>>
streamVars == <<lines, cursor, emitted, gen, conn>>
catalogVars == <<pipelines, previous, fetched, escaped>>
authVars == <<user_key, bearer>>
swapVars == <<models, rpos, rpc, observed>>
jiraVars == <<pat, user_pat, base_url, tool, args, has_emitter, jpc, events, jsent, jresult,
              tool_result>>
vars == <<MAX_RETRIES, POE_API_KEY, DEBUG_MODE, user_key, bearer, pipelines, previous, fetched, escaped,
          pc,
          body, model_id, messages, request_body, built, is_streaming, attempt,
          posts, inflight, sleeps, outcomes, last_error, response, result, lines,
          cursor, emitted, gen, conn,
          models, rpos, rpc, observed,
          pat, user_pat, base_url, tool, args, has_emitter, jpc, events, jsent, jresult,
          tool_result>>

\* ---------------------------------------------------------------- bounds
MaxRetries == 3
MaxLines == 3
MaxBuilds == 2
MaxEntries == 2

\* ------------------------------------------------------- small helpers
None == "None"
EmptyDict == [k \in {} |-> "null"]

\* Python truthiness of a JSON value.
Truthy(v) == v \notin {"null", "false", "0", ""}

\* d[k] = v in place: insert or overwrite.
DictSet(d, k, v) == [x \in (DOMAIN d) \cup {k} |-> IF x = k THEN v ELSE d[x]]

\* What pipe hands back to the host.
Result(kind, category, status) == [kind |-> kind, category |-> category, status |-> status]

\* d.get(k, default)
DictGet(d, k, default) == IF k \in DOMAIN d THEN d[k] ELSE default

\* ------------------------------------------------------------ inputs
\* JSON scalars a caller may put under any key.
Val == {"null", "false", "true"}

\* Top-level keys of the caller map other than extra_body: the streaming
\* flag, one key of the optional allow-list, one standard key outside it
\* and one non-standard (pass-through) key.
FlatKeys == {"stream", "temperature", "user", "reasoning_effort"}

\* Keys of the nested extra_body object.
EbKeys == {"stream", "temperature", "reasoning_effort"}

Dicts(keys) == UNION {[d -> Val] : d \in SUBSET keys}

\* extra_body dicts that name the base field model, with or without a
\* streaming flag next to it.
EbModelDicts == {DictSet(d, "model", "GPT-5.2") : d \in Dicts({"stream"})}

\* body["extra_body"]: absent, present but not a dict, or a dict.
ExtraBodies ==
    {[kind |-> "absent", d |-> EmptyDict], [kind |-> "scalar", d |-> EmptyDict]}
    \cup {[kind |-> "dict", d |-> d] : d \in Dicts(EbKeys) \cup EbModelDicts}

\* A caller map is its flat keys (flat) and its extra_body entry (eb).
Bodies == {[flat |-> f, eb |-> e] : f \in Dicts(FlatKeys), e \in ExtraBodies}

MessageLists == {"[]", "[m1]"}

\* ------------------------------------------------ _build_request_body
STANDARD_PARAMS ==
    {"model", "messages", "stream", "temperature", "max_tokens",
     "top_p", "frequency_penalty", "presence_penalty", "stop",
     "n", "logprobs", "echo", "best_of", "logit_bias", "user"}

\* The list the first loop of _build_request_body runs over.
OPTIONAL_PARAMS ==
    {"temperature", "max_tokens", "top_p",
     "frequency_penalty", "presence_penalty", "stop"}

media_models == {"Sora-2", "Runway-Gen-4-Turbo", "DALL-E-3", "Imagen"}

\* Variant: the streaming flag defaults to False.
BaseBodyStreamOff(m, msgs, b) ==
    [k \in {"model", "messages", "stream"} |->
        CASE k = "model" -> m
          [] k = "messages" -> msgs
          [] OTHER -> DictGet(b.flat, "stream", "false")]

\* request_body = {"model": ..., "messages": ..., "stream": body.get("stream", True)}
BaseBody(m, msgs, b) ==
    [k \in {"model", "messages", "stream"} |->
        CASE k = "model" -> m
          [] k = "messages" -> msgs
          [] OTHER -> DictGet(b.flat, "stream", "true")]

\* Variant: the "is not None" test is missing.
AddOptionalWithNulls(rb, b) ==
    LET copied == {p \in OPTIONAL_PARAMS : p \in DOMAIN b.flat}
    IN [k \in (DOMAIN rb) \cup copied |-> IF k \in copied THEN b.flat[k] ELSE rb[k]]

\* for param in [...]: if param in body and body[param] is not None: copy
AddOptional(rb, b) ==
    LET copied == {p \in OPTIONAL_PARAMS : p \in DOMAIN b.flat /\ b.flat[p] # "null"}
    IN [k \in (DOMAIN rb) \cup copied |-> IF k \in copied THEN b.flat[k] ELSE rb[k]]

\* if "extra_body" in body and isinstance(body["extra_body"], dict): copy all
AddExtraBody(rb, b) ==
    IF b.eb.kind = "dict"
    THEN [k \in (DOMAIN rb) \cup (DOMAIN b.eb.d) |->
             IF k \in DOMAIN b.eb.d THEN b.eb.d[k] ELSE rb[k]]
    ELSE rb

\* Variant: the "key not in self.STANDARD_PARAMS" test is missing.
AddPassthroughAnyKey(rb, b) ==
    LET copied == {k \in DOMAIN b.flat : k \notin DOMAIN rb}
    IN [k \in (DOMAIN rb) \cup copied |-> IF k \in copied THEN b.flat[k] ELSE rb[k]]

\* Variant: the "key not in request_body" test is missing.
AddPassthroughOverwriting(rb, b) ==
    LET copied == {k \in DOMAIN b.flat : k \notin STANDARD_PARAMS}
    IN [k \in (DOMAIN rb) \cup copied |-> IF k \in copied THEN b.flat[k] ELSE rb[k]]

\* for key, value in body.items(): non-standard keys not yet set are copied
\* (the caller map's extra_body entry is kept apart in b.eb, so the
\* key != "extra_body" test is the restriction to b.flat)
AddPassthrough(rb, b) ==
    LET copied == {k \in DOMAIN b.flat : k \notin STANDARD_PARAMS /\ k \notin DOMAIN rb}
    IN [k \in (DOMAIN rb) \cup copied |-> IF k \in copied THEN b.flat[k] ELSE rb[k]]

\* Variant: DEBUG_MODE leaves a trace in the payload.
BuildRequestBodyDebugLeak(debug, m, msgs, b) ==
    LET rb == AddPassthrough(AddExtraBody(AddOptional(BaseBody(m, msgs, b), b), b), b)
    IN IF debug THEN DictSet(rb, "debug", "true") ELSE rb

\* self._build_request_body(model_id, messages, body); debug is
\* self.valves.DEBUG_MODE, which only switches logging on.
BuildRequestBody(debug, m, msgs, b) ==
    AddPassthrough(AddExtraBody(AddOptional(BaseBody(m, msgs, b), b), b), b)

\* ------------------------------------------------------- _make_request
\* What one requests.post call ends in: a response with a status code, or
\* a requests.exceptions.RequestException (Timeout and ConnectionError are
\* subclasses of it).
NoResponse == [status |-> 0, exc |-> None]
Statuses == {200, 400, 418, 429, 500, 503}
RequestExceptions == {"Timeout", "ConnectionError"}
PostOutcomes ==
    {[status |-> st, exc |-> None] : st \in Statuses}
    \cup {[status |-> 0, exc |-> e] : e \in RequestExceptions}

\* Variant: only a status below 400 is returned, a 4xx is retried.
IsReturnedOnlyBelow400(o) == o.exc = None /\ o.status < 400

\* response.status_code < 500 on a post that produced a response
IsReturned(o) == o.exc = None /\ o.status < 500

RECURSIVE Pow2(_)
Pow2(n) == IF n <= 0 THEN 1 ELSE 2 * Pow2(n - 1)

\* Variant: the loop runs once more than range(n) does.
InRangeOffByOne(a, n) == a <= n

\* for attempt in range(n): is there one more iteration
InRange(a, n) == a < n

\* Variant: the call also sleeps after its last attempt.
SleepsAfterLastToo(a, n) == a < n

\* attempt < self.valves.MAX_RETRIES - 1
SleepsAfter(a, n) == a < n - 1

\* for attempt in range(MAX_RETRIES): requests.post(...)
SendPost ==
    /\ pc = "loop"
    /\ InRange(attempt, MAX_RETRIES)
    /\ posts' = posts + 1
    /\ inflight' = inflight + 1
    /\ pc' = "inflight"
    /\ UNCHANGED <<swapVars, jiraVars,
                   valveVars, authVars, catalogVars, buildVars, is_streaming, attempt, sleeps,
                   outcomes, last_error, response, result, streamVars>>

\* The post ends: a status below 500 is returned, everything else (5xx or a
\* RequestException) is recorded in last_error and the loop goes on.
Receive ==
    /\ pc = "inflight"
    /\ \E o \in PostOutcomes :
        /\ inflight' = inflight - 1
        /\ outcomes' = Append(outcomes, o)
        /\ IF IsReturned(o)
           THEN /\ response' = o
                /\ pc' = "returned"
                /\ UNCHANGED <<last_error, attempt>>
           ELSE /\ last_error' = o
                /\ response' = response
                /\ IF SleepsAfter(attempt, MAX_RETRIES)
                   THEN pc' = "backoff" /\ attempt' = attempt
                   ELSE pc' = "loop" /\ attempt' = attempt + 1
    /\ UNCHANGED <<swapVars, jiraVars,
                   valveVars, authVars, catalogVars, buildVars, is_streaming, posts, sleeps,
                   result, streamVars>>

\* time.sleep(2 ** attempt), then the next iteration
Backoff ==
    /\ pc = "backoff"
    /\ sleeps' = Append(sleeps, Pow2(attempt))
    /\ attempt' = attempt + 1
    /\ pc' = "loop"
    /\ UNCHANGED <<swapVars, jiraVars,
                   valveVars, authVars, catalogVars, buildVars, is_streaming, posts, inflight,
                   outcomes, last_error, response, result, streamVars>>

\* raise Exception("Request failed after N retries: ...")
Exhausted ==
    /\ pc = "loop"
    /\ ~InRange(attempt, MAX_RETRIES)
    /\ pc' = "raised"
    /\ UNCHANGED <<swapVars, jiraVars,
                   valveVars, authVars, catalogVars, buildVars, is_streaming, transportVars,
                   result, streamVars>>

\* ------------------------------------------------------ initial values
FallbackIds ==
    <<"GPT-5.2", "GPT-5.2-Pro", "GPT-5.2-Instant", "Claude-Sonnet-4.5",
      "Claude-Opus-4.5", "Claude-Opus-4.1", "Claude-Haiku-4.5", "Gemini-3-Pro",
      "Gemini-3-Flash", "Grok-4", "GLM-4.7", "Minimax-M2.1">>

FALLBACK_MODELS == [i \in DOMAIN FallbackIds |-> [id |-> FallbackIds[i], name |-> FallbackIds[i]]]

NoFetch == [kind |-> "none", status |-> 0, body |-> "none", data |-> <<>>]

\* self.pipelines = self.FALLBACK_MODELS in __init__, before any refresh
InitCatalog ==
    /\ pipelines = FALLBACK_MODELS
    /\ previous = FALLBACK_MODELS
    /\ fetched = NoFetch
    /\ escaped = None

\* No _refresh_models is running step by step and nobody has read the catalog.
NoObservation == [seen |-> FALSE, catalog |-> <<>>]

InitSwap ==
    /\ models = <<>>
    /\ rpos = 0
    /\ rpc = "off"
    /\ observed = NoObservation

\* No jira_* tool has been called.
NoJiraCall == [kind |-> "none"]
NoArgs == [fields |-> "none", custom_fields |-> "absent", method |-> "GET"]

InitJira ==
    /\ pat = ""
    /\ user_pat = "absent"
    /\ base_url = "url"
    /\ tool = "none"
    /\ args = NoArgs
    /\ has_emitter = FALSE
    /\ jpc = "off"
    /\ events = <<>>
    /\ jsent = 0
    /\ jresult = NoJiraCall
    /\ tool_result = None

ModelIds == {"Claude-Sonnet-4.5", "Sora-2"}

NoBody == [flat |-> EmptyDict, eb |-> [kind |-> "absent", d |-> EmptyDict]]

InitTransport ==
    /\ attempt = 0
    /\ posts = 0
    /\ inflight = 0
    /\ sleeps = <<>>
    /\ outcomes = <<>>
    /\ last_error = NoResponse
    /\ response = NoResponse

InitStream ==
    /\ lines = <<>>
    /\ cursor = 0
    /\ emitted = <<>>
    /\ gen = "none"
    /\ conn = "none"

InitNoCall ==
    /\ user_key = ""
    /\ bearer = None
    /\ body = NoBody
    /\ model_id = "Claude-Sonnet-4.5"
    /\ messages = "[]"
    /\ request_body = EmptyDict
    /\ built = <<>>
    /\ is_streaming = "null"
    /\ result = Result("none", "", 0)

\* ---------------------------------------- specification: _make_request
\* One call of _make_request under every configured MAX_RETRIES.
InitRetry ==
    /\ MAX_RETRIES \in 0..MaxRetries
    /\ POE_API_KEY = "key"
    /\ DEBUG_MODE = FALSE
    /\ InitCatalog
    /\ InitSwap
    /\ InitJira
    /\ pc = "loop"
    /\ InitNoCall
    /\ InitTransport
    /\ InitStream

NextRetry == SendPost \/ Receive \/ Backoff \/ Exhausted

SpecRetry == InitRetry /\ [][NextRetry]_vars

\* ---------------------------------- specification: _build_request_body
\* _build_request_body called up to MaxBuilds times on one (model id,
\* messages, caller map), the host switching DEBUG_MODE in between.
BuildCall ==
    /\ pc = "build"
    /\ Len(built) < MaxBuilds
    /\ request_body' = BuildRequestBody(DEBUG_MODE, model_id, messages, body)
    /\ built' = Append(built, [debug |-> DEBUG_MODE, payload |-> request_body'])
    /\ UNCHANGED <<swapVars, jiraVars,
                   valveVars, authVars, catalogVars, pc, body, model_id, messages, is_streaming,
                   transportVars, result, streamVars>>

SetDebug ==
    /\ pc = "build"
    /\ DEBUG_MODE' = ~DEBUG_MODE
    /\ UNCHANGED <<swapVars, jiraVars,
                   MAX_RETRIES, POE_API_KEY, authVars, catalogVars, pc, buildVars, is_streaming,
                   transportVars, result, streamVars>>

InitBuild ==
    /\ MAX_RETRIES = 3
    /\ POE_API_KEY = "key"
    /\ DEBUG_MODE \in BOOLEAN
    /\ InitCatalog
    /\ InitSwap
    /\ InitJira
    /\ pc = "build"
    /\ user_key = ""
    /\ bearer = None
    /\ body \in Bodies
    /\ model_id \in ModelIds
    /\ messages \in MessageLists
    /\ request_body = EmptyDict
    /\ built = <<>>
    /\ is_streaming = "null"
    /\ result = Result("none", "", 0)
    /\ InitTransport
    /\ InitStream

NextBuild == BuildCall \/ SetDebug

SpecBuild == InitBuild /\ [][NextBuild]_vars

\* ---------------------------------------------------- _stream_response
\* A wire line is a sequence of tokens: the marker "data:", a blank " ",
\* the sentinel text "[DONE]", or a text that json.loads is given.
T_hi == "{choices:[{delta:{content:Hi}}]}"
T_lo == "{choices:[{delta:{content:lo}}]}"
T_emptyContent == "{choices:[{delta:{content:''}}]}"
T_nullContent == "{choices:[{delta:{content:null}}]}"
T_noDelta == "{choices:[{}]}"
T_nullDelta == "{choices:[{delta:null}]}"
T_noChoices == "{choices:[]}"
T_null == "null"
T_bad == "{oops"

\* json.loads(text): valid is FALSE when it raises JSONDecodeError;
\* otherwise type, the number of choices, the first choice's delta
\* ("absent", "null" or "dict") and the delta's content ("absent" when
\* the key is missing).
Parsed(valid, type, nchoices, delta, content) ==
    [valid |-> valid, type |-> type, nchoices |-> nchoices, delta |-> delta,
     content |-> content]

JsonLoads(text) ==
    CASE text = T_hi -> Parsed(TRUE, "dict", 1, "dict", "Hi")
      [] text = T_lo -> Parsed(TRUE, "dict", 1, "dict", "lo")
      [] text = T_emptyContent -> Parsed(TRUE, "dict", 1, "dict", "")
      [] text = T_nullContent -> Parsed(TRUE, "dict", 1, "dict", "null")
      [] text = T_noDelta -> Parsed(TRUE, "dict", 1, "absent", "absent")
      [] text = T_nullDelta -> Parsed(TRUE, "dict", 1, "null", "absent")
      [] text = T_noChoices -> Parsed(TRUE, "dict", 0, "absent", "absent")
      [] text = T_null -> Parsed(TRUE, "null", 0, "absent", "absent")
      [] OTHER -> Parsed(FALSE, "none", 0, "absent", "absent")

\* The lines a response may deliver.
LinePool ==
    { <<>>,                          \* keep-alive blank line
      <<": ping">>,                  \* comment line
      <<" ", "data:", " ", "[DONE]">>,  \* marker not at the line start
      <<"data:", " ", "[DONE]">>,
      <<"data:", "[DONE]", " ">>,
      <<"data:">>,                   \* marker with an empty payload
      <<"data:", " ", T_hi>>,
      <<"data:", T_lo>>,
      <<"data:", " ", T_emptyContent>>,
      <<"data:", " ", T_nullContent>>,
      <<"data:", " ", T_noDelta>>,
      <<"data:", " ", T_nullDelta>>,
      <<"data:", " ", T_noChoices>>,
      <<"data:", " ", T_null>>,
      <<"data:", " ", T_bad>> }

SeqsUpTo(S, n) == UNION {[1..k -> S] : k \in 0..n}

\* str.strip(): blanks are dropped at both ends.
RECURSIVE LStrip(_)
LStrip(ts) == IF ts # <<>> /\ Head(ts) = " " THEN LStrip(Tail(ts)) ELSE ts

RECURSIVE RStrip(_)
RStrip(ts) ==
    IF ts # <<>> /\ ts[Len(ts)] = " " THEN RStrip(SubSeq(ts, 1, Len(ts) - 1)) ELSE ts

Strip(ts) == RStrip(LStrip(ts))

\* line_str.startswith("data:")
StartsWithData(line) == line # <<>> /\ Head(line) = "data:"

\* data_str = line_str[5:].strip()
DataStr(line) == Strip(Tail(line))

\* The text handed to json.loads: a payload of several tokens is no JSON.
PayloadText(ds) == IF Len(ds) = 1 THEN ds[1] ELSE T_bad

\* The body of the for loop on one line: "skip" (continue), "break",
\* "yield" with a fragment, or "raise" when an exception other than
\* JSONDecodeError leaves the try block (.get on a value that is no dict).
Step(kind, frag) == [kind |-> kind, frag |-> frag]

\* Variant: JSONDecodeError is not caught, a malformed line ends the stream.
HandleLineBadJsonRaises(line) ==
    IF line = <<>> THEN Step("skip", "")
    ELSE IF ~StartsWithData(line) THEN Step("skip", "")
    ELSE IF DataStr(line) = <<"[DONE]">> THEN Step("break", "")
    ELSE LET data == JsonLoads(PayloadText(DataStr(line))) IN
         IF ~data.valid THEN Step("raise", "")
         ELSE IF data.type # "dict" THEN Step("raise", "")
         ELSE IF data.nchoices = 0 THEN Step("skip", "")
         ELSE IF data.delta = "null" THEN Step("raise", "")
         ELSE LET content == IF data.content = "absent" THEN "" ELSE data.content IN
              IF Truthy(content) THEN Step("yield", content) ELSE Step("skip", "")

\* Variant: the "if content" test is missing.
HandleLineYieldsEmpty(line) ==
    IF line = <<>> THEN Step("skip", "")
    ELSE IF ~StartsWithData(line) THEN Step("skip", "")
    ELSE IF DataStr(line) = <<"[DONE]">> THEN Step("break", "")
    ELSE LET data == JsonLoads(PayloadText(DataStr(line))) IN
         IF ~data.valid THEN Step("skip", "")
         ELSE IF data.type # "dict" THEN Step("raise", "")
         ELSE IF data.nchoices = 0 THEN Step("skip", "")
         ELSE IF data.delta = "null" THEN Step("raise", "")
         ELSE LET content == IF data.content = "absent" THEN "" ELSE data.content IN
              Step("yield", content)

HandleLine(line) ==
    IF line = <<>> THEN Step("skip", "")
    ELSE IF ~StartsWithData(line) THEN Step("skip", "")
    ELSE IF DataStr(line) = <<"[DONE]">> THEN Step("break", "")
    ELSE LET data == JsonLoads(PayloadText(DataStr(line))) IN
         IF ~data.valid THEN Step("skip", "")
         ELSE IF data.type # "dict" THEN Step("raise", "")
         ELSE IF data.nchoices = 0 THEN Step("skip", "")
         ELSE IF data.delta = "null" THEN Step("raise", "")
         ELSE LET content == IF data.content = "absent" THEN "" ELSE data.content IN
              IF Truthy(content) THEN Step("yield", content) ELSE Step("skip", "")

\* One next() on the generator: run the loop from line c + 1 on until it
\* yields, breaks, raises, or iter_lines has no more lines ("eof").
RECURSIVE RunToYield(_, _)
RunToYield(ls, c) ==
    IF c >= Len(ls) THEN [kind |-> "eof", frag |-> "", cursor |-> c]
    ELSE LET st == HandleLine(ls[c + 1]) IN
         IF st.kind = "skip" THEN RunToYield(ls, c + 1)
         ELSE [kind |-> st.kind, frag |-> st.frag, cursor |-> c + 1]

\* The consumer asks for the next fragment.  The connection goes back to
\* the pool by itself only when iter_lines has read the response to its end.
NextFragment ==
    /\ gen \in {"created", "suspended"}
    /\ LET r == RunToYield(lines, cursor) IN
        /\ cursor' = r.cursor
        /\ emitted' = IF r.kind = "yield" THEN Append(emitted, r.frag) ELSE emitted
        /\ gen' = CASE r.kind = "yield" -> "suspended"
                    [] r.kind = "raise" -> "error"
                    [] OTHER -> "done"
        /\ conn' = IF r.kind = "eof" THEN "released" ELSE conn
    /\ UNCHANGED <<swapVars, jiraVars,
                   valveVars, authVars, catalogVars, pc, buildVars, is_streaming, transportVars,
                   result, lines>>

\* The consumer stops iterating and drops (or closes) the generator: the
\* generator has no finally block and never calls response.close().
Abandon ==
    /\ gen \in {"created", "suspended"}
    /\ gen' = "abandoned"
    /\ UNCHANGED <<swapVars, jiraVars,
                   valveVars, authVars, catalogVars, pc, buildVars, is_streaming, transportVars,
                   result, lines, cursor, emitted, conn>>

\* The runtime may finalize the unreferenced response object at some
\* later time, which closes its socket; the code does nothing to make
\* this happen.
Finalize ==
    /\ gen \in {"done", "error", "abandoned"}
    /\ conn = "open"
    /\ conn' = "released"
    /\ UNCHANGED <<swapVars, jiraVars,
                   valveVars, authVars, catalogVars, pc, buildVars, is_streaming, transportVars,
                   result, lines, cursor, emitted, gen>>

\* ------------------------------------- specification: _stream_response
\* The generator over every line sequence of up to MaxLines lines.
InitStreaming ==
    /\ MAX_RETRIES = 3
    /\ POE_API_KEY = "key"
    /\ DEBUG_MODE = FALSE
    /\ InitCatalog
    /\ InitSwap
    /\ InitJira
    /\ pc = "done"
    /\ InitNoCall
    /\ InitTransport
    /\ lines \in SeqsUpTo(LinePool, MaxLines)
    /\ cursor = 0
    /\ emitted = <<>>
    /\ gen = "created"
    /\ conn = "open"

NextStream == NextFragment \/ Abandon \/ Finalize

SpecStream == InitStreaming /\ [][NextStream]_vars


\* ------------------------------------------------------------- pipe
\* is_streaming = request_body.get("stream", True)
StreamFlag(rb) == DictGet(rb, "stream", "true")

\* Variant: only the local is_streaming is switched off, not the payload.
MediaOverrideFlagOnly(m, rb) == rb

\* if model_id in media_models and is_streaming: request_body["stream"] = False
MediaOverride(m, rb) ==
    IF m \in media_models /\ Truthy(StreamFlag(rb)) THEN DictSet(rb, "stream", "false") ELSE rb

\* Variant: the media override leaves the local is_streaming as it was.
LocalStreamingNoOverride(m, rb) == StreamFlag(rb)

\* is_streaming = request_body.get("stream", True), set to False together
\* with the payload's flag by the media override
LocalStreaming(m, rb) ==
    IF m \in media_models /\ Truthy(StreamFlag(rb)) THEN "false" ELSE StreamFlag(rb)

\* self._get_api_key(): return self.valves.POE_API_KEY; the caller's
\* UserValves are not consulted.
GetApiKey(valves_key, caller_key) == valves_key

\* Variant: the key check lets an empty key through.
HasKeyAlways(key) == TRUE

\* if not api_key: return the configuration error
HasKey(key) == Truthy(key)

\* pipe up to the call of _make_request: the API key check, the request
\* body and the streaming decision.
PipeCall ==
    /\ pc = "idle"
    /\ IF ~HasKey(GetApiKey(POE_API_KEY, user_key))
       THEN /\ result' = Result("error", "nokey", 0)
            /\ pc' = "done"
            /\ UNCHANGED <<request_body, is_streaming, bearer>>
       ELSE LET rb == BuildRequestBody(DEBUG_MODE, model_id, messages, body) IN
            /\ request_body' = MediaOverride(model_id, rb)
            /\ bearer' = GetApiKey(POE_API_KEY, user_key)
            /\ is_streaming' = LocalStreaming(model_id, rb)
            /\ pc' = "loop"
            /\ result' = result
    /\ UNCHANGED <<swapVars, jiraVars,
                   valveVars, user_key, catalogVars, body, model_id, messages, built,
                   transportVars, streamVars>>

\* Variant: only a 5xx answer is treated as an error.
IsErrorStatusOnly5xx(st) == st >= 500

\* if response.status_code >= 400: return self._format_error(response)
IsErrorStatus(st) == st >= 400

\* status_messages.get(response.status_code, <request failed>): the
\* Chinese texts of the table are written by their meaning.
StatusCategory(st) ==
    CASE st = 400 -> "bad request parameters"
      [] st = 401 -> "invalid API key"
      [] st = 403 -> "no access to this model"
      [] st = 404 -> "model does not exist"
      [] st = 429 -> "rate limit exceeded"
      [] st = 500 -> "server error"
      [] OTHER -> "request failed"

\* _format_error: "**{error_type}** (HTTP {status_code})" and the message;
\* whatever the body is, the try/except leaves a message text.
FormatError(st) == Result("error", StatusCategory(st), st)

\* The bodies a buffered 2xx/3xx answer may carry, as _parse_response sees
\* them: a first choice with content, no choices, or no JSON at all.
BufferedBodies == {"content", "nochoices", "notjson"}

\* The lines a streamed answer may carry.
PipeLines == SeqsUpTo({<<"data:", " ", T_hi>>, <<"data:", " ", "[DONE]">>,
                       <<"data:", " ", T_null>>}, 2)

\* _make_request returned: format the error, hand out the generator, or
\* parse the buffered body (a body that is no JSON raises, and the raise
\* is caught by pipe's except Exception).
HandleResponse ==
    /\ pc = "returned"
    /\ pc' = "done"
    /\ IF IsErrorStatus(response.status)
       THEN /\ result' = FormatError(response.status)
            /\ conn' = "released"
            /\ UNCHANGED <<lines, cursor, emitted, gen>>
       ELSE IF Truthy(is_streaming)
       THEN /\ result' = Result("generator", "", response.status)
            /\ lines' \in PipeLines
            /\ gen' = "created"
            /\ conn' = "open"
            /\ UNCHANGED <<cursor, emitted>>
       ELSE /\ \E b \in BufferedBodies :
                result' = IF b = "notjson"
                          THEN Result("error", "exception", 0)
                          ELSE Result("text", b, response.status)
            /\ conn' = "released"
            /\ UNCHANGED <<lines, cursor, emitted, gen>>
    /\ UNCHANGED <<swapVars, jiraVars,
                   valveVars, authVars, catalogVars, buildVars, is_streaming, transportVars>>

\* _make_request raised its exhaustion Exception: except Exception in pipe
HandleRaised ==
    /\ pc = "raised"
    /\ pc' = "done"
    /\ result' = Result("error", "exception", 0)
    /\ UNCHANGED <<swapVars, jiraVars,
                   valveVars, authVars, catalogVars, buildVars, is_streaming, transportVars,
                   streamVars>>

\* --------------------------------------------------- specification: pipe
\* One pipe call, from the host's call to the consumption of what it
\* returned.
PipeBodies ==
    {b \in Bodies : DOMAIN b.flat \subseteq {"stream"} /\ DOMAIN b.eb.d \subseteq {"stream"}}

InitPipe ==
    /\ MAX_RETRIES \in 0..MaxRetries
    /\ POE_API_KEY \in {"", "key"}
    /\ DEBUG_MODE = FALSE
    /\ InitCatalog
    /\ InitSwap
    /\ InitJira
    /\ pc = "idle"
    /\ user_key \in {"", "ukey"}
    /\ bearer = None
    /\ body \in PipeBodies
    /\ model_id \in ModelIds
    /\ messages = "[m1]"
    /\ request_body = EmptyDict
    /\ built = <<>>
    /\ is_streaming = "null"
    /\ result = Result("none", "", 0)
    /\ InitTransport
    /\ InitStream

NextPipe ==
    \/ PipeCall
    \/ SendPost
    \/ Receive
    \/ Backoff
    \/ Exhausted
    \/ HandleResponse
    \/ HandleRaised
    \/ NextFragment
    \/ Abandon
    \/ Finalize

SpecPipe == InitPipe /\ [][NextPipe]_vars

\* ------------------------------------------------------ _refresh_models
\* One entry of the "data" list of GET /models: a dict with an id and a
\* name (either may be missing, written "absent"), or something that is
\* no dict.
Entry(isdict, id, name) == [isdict |-> isdict, id |-> id, name |-> name]

EntryPool ==
    { Entry(TRUE, "m1", "Model One"),
      Entry(TRUE, "m2", "absent"),
      Entry(TRUE, "m3", "null"),
      Entry(TRUE, "", "Nameless"),
      Entry(TRUE, "absent", "absent"),
      Entry(FALSE, "absent", "absent") }

\* What GET /models may answer: the request raises, a status other than
\* 200, or 200 with a body that is no JSON ("notjson"), a JSON value that
\* is no dict ("notdict"), a dict whose data is null ("datanull"), a dict
\* without data ("nodata") or a dict with a data list ("list").
Fetch(kind, status, b, data) == [kind |-> kind, status |-> status, body |-> b, data |-> data]

\* The refresh that returns before any request: no API key.
NoKeyFetch == Fetch("nokey", 0, "none", <<>>)

Fetches ==
    {Fetch("exception", 0, "none", <<>>)}
    \cup {Fetch("response", st, "none", <<>>) : st \in {401, 500}}
    \cup {Fetch("response", 200, b, <<>>) : b \in {"notjson", "notdict", "datanull", "nodata"}}
    \cup {Fetch("response", 200, "list", d) : d \in SeqsUpTo(EntryPool, MaxEntries)}

\* model_id = model.get("id", "")
EntryId(e) == IF e.id = "absent" THEN "" ELSE e.id

\* Variant: the name is taken without the id as its default.
CatalogEntryNoDefault(e) == [id |-> EntryId(e), name |-> e.name]

\* {"id": model_id, "name": model.get("name", model_id)}
CatalogEntry(e) == [id |-> EntryId(e), name |-> IF e.name = "absent" THEN EntryId(e) ELSE e.name]

\* Variant: the "if model_id" test is missing.
RECURSIVE CollectModelsKeepsEmptyIds(_)
CollectModelsKeepsEmptyIds(data) ==
    IF data = <<>> THEN <<>>
    ELSE <<CatalogEntry(Head(data))>> \o CollectModelsKeepsEmptyIds(Tail(data))

\* models = []; for model in data.get("data", []): if model_id: models.append(...)
RECURSIVE CollectModels(_)
CollectModels(data) ==
    IF data = <<>> THEN <<>>
    ELSE (IF Truthy(EntryId(Head(data))) THEN <<CatalogEntry(Head(data))>> ELSE <<>>)
         \o CollectModels(Tail(data))

\* The exception the try block raises, None when it raises nothing:
\* requests.get raises, response.json() raises, .get is called on
\* something that is no dict, or None is iterated.
RefreshException(f) ==
    IF f.kind = "exception" THEN "RequestException"
    ELSE IF f.status # 200 THEN None
    ELSE IF f.body = "notjson" THEN "JSONDecodeError"
    ELSE IF f.body = "notdict" THEN "AttributeError"
    ELSE IF f.body = "datanull" THEN "TypeError"
    ELSE IF \E i \in DOMAIN f.data : ~f.data[i].isdict THEN "AttributeError"
    ELSE None

RefreshRaises(f) == RefreshException(f) # None

\* Variant: the handler is except requests.exceptions.RequestException.
RefreshCatchesRequestOnly(e) == e = "RequestException"

\* except Exception as e: every one of the exceptions above is caught
RefreshCatches(e) == e \in {"RequestException", "JSONDecodeError", "AttributeError", "TypeError"}

\* The exception that leaves _refresh_models, None when it returns.
RefreshEscapes(key, f) ==
    IF Truthy(key) /\ RefreshRaises(f) /\ ~RefreshCatches(RefreshException(f))
    THEN RefreshException(f)
    ELSE None

\* Variant: a failed fetch leaves the catalog as it was.
RefreshModelsKeepsOld(old, key, f) ==
    IF ~Truthy(key) THEN FALLBACK_MODELS
    ELSE IF RefreshRaises(f) THEN old
    ELSE IF f.status = 200 /\ CollectModels(f.data) # <<>> THEN CollectModels(f.data)
    ELSE old

\* The catalog after _refresh_models, old being the catalog before it.
RefreshModels(old, key, f) ==
    IF ~Truthy(key) THEN FALLBACK_MODELS
    ELSE IF RefreshRaises(f)
         THEN (IF RefreshCatches(RefreshException(f)) THEN FALLBACK_MODELS ELSE old)
    ELSE IF f.status = 200 /\ CollectModels(f.data) # <<>> THEN CollectModels(f.data)
    ELSE FALLBACK_MODELS

\* on_startup: await self._refresh_models(); without a key no request is made
OnStartup ==
    /\ pc = "catalog"
    /\ \E f \in Fetches :
        /\ fetched' = IF Truthy(POE_API_KEY) THEN f ELSE NoKeyFetch
        /\ pipelines' = RefreshModels(pipelines, POE_API_KEY, f)
        /\ escaped' = RefreshEscapes(POE_API_KEY, f)
    /\ previous' = pipelines
    /\ UNCHANGED <<swapVars, jiraVars,
                   valveVars, authVars, pc, buildVars, is_streaming, transportVars, result,
                   streamVars>>

\* on_valves_updated: the host has stored new valves, then the refresh runs
OnValvesUpdated ==
    /\ pc = "catalog"
    /\ \E key \in {"", "key"}, f \in Fetches :
        /\ POE_API_KEY' = key
        /\ fetched' = IF Truthy(key) THEN f ELSE NoKeyFetch
        /\ pipelines' = RefreshModels(pipelines, key, f)
        /\ escaped' = RefreshEscapes(key, f)
    /\ previous' = pipelines
    /\ UNCHANGED <<swapVars, jiraVars,
                   MAX_RETRIES, DEBUG_MODE, authVars, pc, buildVars, is_streaming, transportVars,
                   result, streamVars>>

\* ---------------------------------------- specification: model catalog
InitRefresh ==
    /\ MAX_RETRIES = 3
    /\ POE_API_KEY \in {"", "key"}
    /\ DEBUG_MODE = FALSE
    /\ InitCatalog
    /\ InitSwap
    /\ InitJira
    /\ pc = "catalog"
    /\ InitNoCall
    /\ InitTransport
    /\ InitStream

NextCatalog == OnStartup \/ OnValvesUpdated

SpecCatalog == InitRefresh /\ [][NextCatalog]_vars


\* ------------------------- _refresh_models step by step, with a reader
\* The fetch fails before the loop over the entries starts: requests.get
\* raises, response.json() raises, or data.get("data", []) cannot be
\* called or iterated.
RaisesBeforeLoop(f) ==
    \/ f.kind = "exception"
    \/ f.status = 200 /\ f.body \in {"notjson", "notdict", "datanull"}

\* Variant: the loop appends to self.pipelines itself.
CatalogDuringInPlace(old, partial) == partial

\* self.pipelines while the loop runs: the loop appends to the local list
\* models, self.pipelines is assigned only after the loop (line 145).
CatalogDuring(old, partial) == old

\* _refresh_models up to the start of the loop: the key check, the GET, the
\* status check, response.json() and models = [].
RefreshBegin ==
    /\ rpc = "idle"
    /\ previous' = pipelines
    /\ observed' = NoObservation
    /\ \E f \in Fetches :
        IF ~Truthy(POE_API_KEY)
        THEN /\ fetched' = NoKeyFetch
             /\ pipelines' = FALLBACK_MODELS
             /\ UNCHANGED <<models, rpos, rpc>>
        ELSE /\ fetched' = f
             /\ IF RaisesBeforeLoop(f) \/ f.status # 200
                THEN /\ pipelines' = FALLBACK_MODELS
                     /\ UNCHANGED <<models, rpos, rpc>>
                ELSE /\ models' = <<>>
                     /\ rpos' = 0
                     /\ rpc' = "looping"
                     /\ pipelines' = CatalogDuring(pipelines, <<>>)
    /\ UNCHANGED <<jiraVars, valveVars, authVars, escaped, pc, buildVars, is_streaming,
                   transportVars, result, streamVars>>

\* One iteration of the loop: an entry that is no dict raises
\* AttributeError, which the handler turns into the fallback catalog.
RefreshStep ==
    /\ rpc = "looping"
    /\ rpos < Len(fetched.data)
    /\ LET e == fetched.data[rpos + 1] IN
        IF ~e.isdict
        THEN /\ pipelines' = FALLBACK_MODELS
             /\ rpc' = "idle"
             /\ UNCHANGED <<models, rpos>>
        ELSE /\ models' = IF Truthy(EntryId(e)) THEN Append(models, CatalogEntry(e)) ELSE models
             /\ rpos' = rpos + 1
             /\ rpc' = rpc
             /\ pipelines' = CatalogDuring(pipelines, models')
    /\ UNCHANGED <<jiraVars, valveVars, authVars, previous, fetched, escaped, observed, pc,
                   buildVars, is_streaming, transportVars, result, streamVars>>

\* After the loop: if models: self.pipelines = models, else the fallback.
RefreshEnd ==
    /\ rpc = "looping"
    /\ rpos = Len(fetched.data)
    /\ pipelines' = IF models # <<>> THEN models ELSE FALLBACK_MODELS
    /\ rpc' = "idle"
    /\ UNCHANGED <<jiraVars, valveVars, authVars, previous, fetched, escaped, observed, pc,
                   buildVars, is_streaming, transportVars, result, streamVars, models, rpos>>

\* A concurrent reader takes self.pipelines, at any point of a refresh.
ReadCatalog ==
    /\ rpc \in {"idle", "looping"}
    /\ observed' = [seen |-> TRUE, catalog |-> pipelines]
    /\ UNCHANGED <<jiraVars, valveVars, authVars, catalogVars, models, rpos, rpc, pc, buildVars,
                   is_streaming, transportVars, result, streamVars>>

\* -------------------- specification: catalog refresh against a reader
InitReader ==
    /\ MAX_RETRIES = 3
    /\ POE_API_KEY \in {"", "key"}
    /\ DEBUG_MODE = FALSE
    /\ InitCatalog
    /\ models = <<>>
    /\ rpos = 0
    /\ rpc = "idle"
    /\ observed = NoObservation
    /\ InitJira
    /\ pc = "catalog"
    /\ InitNoCall
    /\ InitTransport
    /\ InitStream

NextReader == RefreshBegin \/ RefreshStep \/ RefreshEnd \/ ReadCatalog

SpecReader == InitReader /\ [][NextReader]_vars


\* =========================================== src/src/tools/jira_api_guru.py
\* ------------------------------------------------- _make_jira_request
\* _get_jira_auth_token: the user-level token when __user__ carries a
\* truthy one, the tool-level valves.pat otherwise.
GetJiraAuthToken(up, p) == IF up # "absent" /\ Truthy(up) THEN up ELSE p

\* The methods _make_jira_request knows, by method.lower().
Lower(m) ==
    CASE m \in {"GET", "get"} -> "get"
      [] m = "POST" -> "post"
      [] m = "PUT" -> "put"
      [] m = "DELETE" -> "delete"
      [] OTHER -> "patch"

JiraMethods == {"GET", "get", "POST", "PUT", "DELETE", "PATCH"}

\* What the HTTP request may end in: a RequestException, or a response
\* with a status and a body text that is empty, blank, a JSON object, a
\* JSON array or no JSON at all.  For a body that is no JSON, json names what
\* response.json() raises: requests' own JSONDecodeError, which is a
\* RequestException, or with an older requests a plain ValueError.
JiraStatuses == {200, 201, 204, 404}

JiraOutcome(kind, status, text, jsonerr) ==
    [kind |-> kind, status |-> status, text |-> text, json |-> jsonerr]

JiraOutcomes ==
    {JiraOutcome("exception", 0, "empty", "none")}
    \cup {JiraOutcome("response", st, t, "none") :
            st \in JiraStatuses, t \in {"empty", "blank", "object", "array"}}
    \cup {JiraOutcome("response", st, "notjson", j) :
            st \in JiraStatuses, j \in {"RequestException", "ValueError"}}

\* The JSON values _make_jira_request returns, by their shape, their
\* top-level keys and where they come from.
JsonValue(shape, keys, origin) == [shape |-> shape, keys |-> keys, origin |-> origin]
NoValue == JsonValue("none", {}, "none")
ErrorJson == JsonValue("object", {"error"}, "error")
SuccessJson == JsonValue("object", {"status", "status_code"}, "success")
BodyJson(text) ==
    IF text = "object" THEN JsonValue("object", {"key", "fields"}, "body")
    ELSE JsonValue("array", {}, "body")

\* Variant: every 2xx status counts as success.
IsJiraErrorFrom400(st) == st >= 400

\* if response.status_code != 200: return the error object
IsJiraError(st) == st # 200

\* response.text.strip() is empty
IsBlank(text) == text \in {"empty", "blank"}

\* One call of _make_jira_request: the exception it raises (None when it
\* returns), the number of HTTP requests it issued and the value returned.
JiraCall(raised, sent, value) == [raised |-> raised, sent |-> sent, value |-> value]

MakeJiraRequest(up, p, url, method, o) ==
    IF ~Truthy(GetJiraAuthToken(up, p)) THEN JiraCall("ValueError", 0, NoValue)
    ELSE IF ~Truthy(url) THEN JiraCall("ValueError", 0, NoValue)
    ELSE IF Lower(method) \notin {"get", "post", "put", "delete"}
         THEN JiraCall("ValueError", 0, NoValue)
    ELSE IF o.kind = "exception" THEN JiraCall(None, 1, ErrorJson)
    ELSE IF IsJiraError(o.status) THEN JiraCall(None, 1, ErrorJson)
    ELSE IF IsBlank(o.text) THEN JiraCall(None, 1, SuccessJson)
    ELSE IF o.text = "notjson"
         THEN (IF o.json = "RequestException"
               THEN JiraCall(None, 1, ErrorJson)
               ELSE JiraCall("ValueError", 1, NoValue))
    ELSE JiraCall(None, 1, BodyJson(o.text))

\* The call as jresult keeps it: its inputs next to what it did.
Recorded(method, o, r) ==
    [kind |-> "call", method |-> method, outcome |-> o, raised |-> r.raised,
     sent |-> r.sent, value |-> r.value]

\* --------------------------------------------------------- EventEmitter
\* The event emit_status hands to the emitter; icon stands for the prefix
\* of the description.
StatusEvent(done, error) ==
    [type |-> "status",
     icon |-> IF done /\ ~error THEN "ok" ELSE IF error THEN "error" ELSE "progress",
     status |-> IF done THEN "complete" ELSE "in_progress",
     done |-> done]

MessageEvent == [type |-> "message"]

\* emit_status refuses an error that is not done (it raises before it
\* emits; no tool calls it that way).
EmitStatus(evs, done, error) ==
    IF error /\ ~done THEN evs ELSE Append(evs, StatusEvent(done, error))

\* emit_message
EmitMessage(evs) == Append(evs, MessageEvent)

\* Variant: the exception handler returns without a status.
ExceptionEventsSilent(evs, emitter) == evs

\* except Exception as e: if event_emitter: emit_status(..., True, True)
ExceptionEvents(evs, emitter) == IF emitter THEN EmitStatus(evs, TRUE, TRUE) ELSE evs

\* ---------------------------------------------------------- the tools
JiraTools == {"jira_get_issue", "jira_update_issue", "jira_transition_issue"}

ToolMethod(t) ==
    CASE t = "jira_get_issue" -> "GET"
      [] t = "jira_update_issue" -> "PUT"
      [] OTHER -> "POST"

\* The arguments that decide a tool's path: whether jira_update_issue got
\* a field to change (summary), and its custom_fields string: not given, a
\* JSON object with fields, an empty JSON object, JSON that is no object,
\* or no JSON.
ToolArgs ==
    {[fields |-> f, custom_fields |-> c, method |-> "GET"] :
        f \in {"none", "summary"}, c \in {"absent", "dict", "emptydict", "list", "notjson"}}

\* jira_update_issue up to its request: building data raises (ValueError
\* for custom_fields that is no JSON, AttributeError for .items() on JSON
\* that is no object), data["fields"] stays empty, or there is data to send.
UpdateData(a) ==
    IF a.custom_fields = "notjson" THEN "ValueError"
    ELSE IF a.custom_fields = "list" THEN "AttributeError"
    ELSE IF a.fields = "none" /\ a.custom_fields # "dict" THEN "empty"
    ELSE "ok"

\* The host calls a tool: event_emitter is set up and the in-progress
\* status is emitted, before the try block.
ToolCall ==
    /\ jpc = "idle"
    /\ \E t \in JiraTools, e \in BOOLEAN, a \in ToolArgs :
        /\ tool' = t
        /\ has_emitter' = e
        /\ args' = IF t = "jira_update_issue" THEN a ELSE NoArgs
        /\ events' = IF e THEN EmitStatus(<<>>, FALSE, FALSE) ELSE <<>>
    /\ jsent' = 0
    /\ jresult' = NoJiraCall
    /\ tool_result' = None
    /\ jpc' = "try"
    /\ UNCHANGED <<swapVars, pat, user_pat, base_url, valveVars, authVars, catalogVars, pc,
                   buildVars, is_streaming, transportVars, result, streamVars>>

\* The try block up to the result of _make_jira_request: jira_update_issue
\* may raise or return early while it builds data; the request may raise;
\* without an emitter the result is returned as it is.
ToolRequest ==
    /\ jpc = "try"
    /\ IF tool = "jira_update_issue" /\ UpdateData(args) # "ok"
       THEN /\ events' = IF UpdateData(args) = "empty"
                         THEN (IF has_emitter THEN EmitStatus(events, TRUE, TRUE) ELSE events)
                         ELSE ExceptionEvents(events, has_emitter)
            /\ tool_result' = ErrorJson
            /\ jpc' = "idle"
            /\ UNCHANGED <<jsent, jresult>>
       ELSE \E o \in JiraOutcomes :
            LET r == MakeJiraRequest(user_pat, pat, base_url, ToolMethod(tool), o) IN
            /\ jresult' = Recorded(ToolMethod(tool), o, r)
            /\ jsent' = jsent + r.sent
            /\ IF r.raised # None
               THEN /\ events' = ExceptionEvents(events, has_emitter)
                    /\ tool_result' = ErrorJson
                    /\ jpc' = "idle"
               ELSE /\ events' = events
                    /\ tool_result' = r.value
                    /\ jpc' = IF has_emitter THEN "report" ELSE "idle"
    /\ UNCHANGED <<swapVars, pat, user_pat, base_url, tool, args, has_emitter, valveVars,
                   authVars, catalogVars, pc, buildVars, is_streaming, transportVars, result,
                   streamVars>>

\* if event_emitter: the result is parsed; an error result ends in the
\* error status; else the tool formats its message (jira_get_issue calls
\* .get on the parsed result, which raises AttributeError on a JSON array)
\* and emits it; jira_transition_issue first looks up the transition name.
ToolReport ==
    /\ jpc = "report"
    /\ IF "error" \in tool_result.keys
       THEN /\ events' = EmitStatus(events, TRUE, TRUE)
            /\ jpc' = "idle"
            /\ tool_result' = tool_result
       ELSE IF tool = "jira_get_issue" /\ tool_result.shape # "object"
       THEN /\ events' = ExceptionEvents(events, has_emitter)
            /\ jpc' = "idle"
            /\ tool_result' = ErrorJson
       ELSE IF tool = "jira_transition_issue"
       THEN /\ events' = events
            /\ jpc' = "lookup"
            /\ tool_result' = tool_result
       ELSE /\ events' = EmitMessage(events)
            /\ jpc' = "finish"
            /\ tool_result' = tool_result
    /\ UNCHANGED <<swapVars, pat, user_pat, base_url, tool, args, has_emitter, jsent, jresult,
                   valveVars, authVars, catalogVars, pc, buildVars, is_streaming, transportVars,
                   result, streamVars>>

\* jira_transition_issue asks for the transitions of the issue: the call
\* may raise, and .get on a JSON array raises AttributeError; an error
\* result is passed over.  Then the message is emitted.
ToolLookup ==
    /\ jpc = "lookup"
    /\ \E o \in JiraOutcomes :
        LET r == MakeJiraRequest(user_pat, pat, base_url, "GET", o) IN
        /\ jresult' = Recorded("GET", o, r)
        /\ jsent' = jsent + r.sent
        /\ IF r.raised # None \/ ("error" \notin r.value.keys /\ r.value.shape # "object")
           THEN /\ events' = ExceptionEvents(events, has_emitter)
                /\ tool_result' = ErrorJson
                /\ jpc' = "idle"
           ELSE /\ events' = EmitMessage(events)
                /\ tool_result' = tool_result
                /\ jpc' = "finish"
    /\ UNCHANGED <<swapVars, pat, user_pat, base_url, tool, args, has_emitter, valveVars,
                   authVars, catalogVars, pc, buildVars, is_streaming, transportVars, result,
                   streamVars>>

\* The success status, then return result.
ToolFinish ==
    /\ jpc = "finish"
    /\ events' = EmitStatus(events, TRUE, FALSE)
    /\ jpc' = "idle"
    /\ UNCHANGED <<swapVars, pat, user_pat, base_url, tool, args, has_emitter, jsent, jresult,
                   tool_result, valveVars, authVars, catalogVars, pc, buildVars, is_streaming,
                   transportVars, result, streamVars>>

\* _make_jira_request called on its own, with any method.
CallMakeJiraRequest ==
    /\ jpc = "idle"
    /\ \E m \in JiraMethods, o \in JiraOutcomes :
        jresult' = Recorded(m, o, MakeJiraRequest(user_pat, pat, base_url, m, o))
    /\ UNCHANGED <<swapVars, pat, user_pat, base_url, tool, args, has_emitter, jpc, events,
                   jsent, tool_result, valveVars, authVars, catalogVars, pc, buildVars,
                   is_streaming, transportVars, result, streamVars>>

\* --------------------------------------------- specification: Jira tools
InitTools ==
    /\ MAX_RETRIES = 3
    /\ POE_API_KEY = "key"
    /\ DEBUG_MODE = FALSE
    /\ InitCatalog
    /\ InitSwap
    /\ pat \in {"", "pat"}
    /\ user_pat \in {"absent", "", "upat"}
    /\ base_url \in {"", "url"}
    /\ tool = "none"
    /\ args = NoArgs
    /\ has_emitter = FALSE
    /\ jpc = "idle"
    /\ events = <<>>
    /\ jsent = 0
    /\ jresult = NoJiraCall
    /\ tool_result = None
    /\ pc = "jira"
    /\ InitNoCall
    /\ InitTransport
    /\ InitStream

NextTools ==
    \/ ToolCall
    \/ ToolRequest
    \/ ToolReport
    \/ ToolLookup
    \/ ToolFinish
    \/ CallMakeJiraRequest

SpecTools == InitTools /\ [][NextTools]_vars


\* ============================================================== claims
\* ------------------------------------------------ under SpecRetry
Retryable(o) == o.exc # None \/ o.status >= 500
Below500(o) == o.exc = None /\ o.status < 500
AllRetryable == \A i \in DOMAIN outcomes : Retryable(outcomes[i])

\* C1: with MAX_RETRIES = N >= 1, as long as every attempt ended in a
\* retryable outcome (status >= 500 or a request exception) the call never
\* returns a response and never issues more than N POSTs, and when it
\* ends it ends in the exhaustion failure after exactly N POSTs.
C1_ExhaustedAfterMaxAttempts ==
    (MAX_RETRIES >= 1 /\ AllRetryable) =>
        /\ pc # "returned"
        /\ posts <= MAX_RETRIES
        /\ (Len(outcomes) = MAX_RETRIES => pc \in {"loop", "raised"})
        /\ (pc = "raised" => posts = MAX_RETRIES /\ Len(outcomes) = MAX_RETRIES)

C1_Witness ==
    /\ pc = "raised"
    /\ MAX_RETRIES = MaxRetries
    /\ posts = MaxRetries
    /\ \E i \in DOMAIN outcomes : outcomes[i].status = 503
    /\ \E i \in DOMAIN outcomes : outcomes[i].exc = "ConnectionError"

\* C2: the first attempt answered with a status below 500 (4xx included)
\* ends the loop: it is the last outcome, it is the returned response, no
\* request is in flight, no sleep follows it (one sleep per earlier failed
\* attempt only) and the number of POSTs is its 0-based index plus one.
C2_FirstBelow500Returns ==
    \A i \in DOMAIN outcomes :
        Below500(outcomes[i]) =>
            /\ i = Len(outcomes)
            /\ pc = "returned"
            /\ response = outcomes[i]
            /\ posts = (i - 1) + 1
            /\ inflight = 0
            /\ Len(sleeps) = i - 1

C2_Witness ==
    /\ pc = "returned"
    /\ response.status = 400
    /\ posts = 2
    /\ posts < MAX_RETRIES

\* C3: a timed out attempt is the last attempt of the call: no POST is
\* issued and no backoff is taken after it.
C3_TimeoutIsTerminal ==
    \A i \in DOMAIN outcomes :
        outcomes[i].exc = "Timeout" => (posts = i /\ pc # "backoff")

\* ------------------------------------------------ under SpecBuild
HasBuilt == pc = "build" /\ built # <<>>

\* Keys held both by the nested extra_body object and at the top level of
\* the caller map, with different values.
Conflicting ==
    IF body.eb.kind = "dict"
    THEN {k \in (DOMAIN body.eb.d) \cap (DOMAIN body.flat) : body.eb.d[k] # body.flat[k]}
    ELSE {}

\* C4: a key given both in extra_body and at the top level with a different
\* value is in the built payload with extra_body's value.
C4_NestedWinsOverFlat ==
    HasBuilt =>
        \A k \in Conflicting :
            k \in DOMAIN request_body /\ request_body[k] = body.eb.d[k]

C4_Witness ==
    /\ HasBuilt
    /\ "reasoning_effort" \in Conflicting
    /\ "temperature" \in Conflicting
    /\ body.flat["temperature"] # "null"

\* C5 as stated: no key of the optional allow-list is in the built payload
\* with a null value, whatever the caller map.
C5_NoNullStandardParam ==
    HasBuilt =>
        \A k \in OPTIONAL_PARAMS \cap DOMAIN request_body : request_body[k] # "null"

\* C5 amended: a key of the optional allow-list is in the built payload with
\* a null value only when the nested extra_body object gives it that null;
\* a null given at the top level is never copied.
C5_NullOnlyFromExtraBody ==
    HasBuilt =>
        \A k \in OPTIONAL_PARAMS \cap DOMAIN request_body :
            request_body[k] = "null" =>
                /\ body.eb.kind = "dict"
                /\ k \in DOMAIN body.eb.d
                /\ body.eb.d[k] = "null"

C5_Witness ==
    /\ HasBuilt
    /\ "temperature" \in DOMAIN body.flat
    /\ body.flat["temperature"] = "null"
    /\ "temperature" \notin DOMAIN request_body

IsSentinel(line) == StartsWithData(line) /\ DataStr(line) = <<"[DONE]">>

\* The lines before the first sentinel line (all lines when there is none).
BeforeSentinel ==
    LET S == {i \in DOMAIN lines : IsSentinel(lines[i])}
        first == IF S = {} THEN Len(lines) + 1 ELSE CHOOSE i \in S : \A j \in S : i <= j
    IN SubSeq(lines, 1, first - 1)

\* The non-empty delta content a line carries, as a sequence of 0 or 1.
DeltaContent(line) ==
    IF ~StartsWithData(line) THEN <<>>
    ELSE LET data == JsonLoads(PayloadText(DataStr(line))) IN
         IF data.valid /\ data.type = "dict" /\ data.nchoices > 0
            /\ data.delta = "dict" /\ data.content \notin {"absent", "null", ""}
         THEN <<data.content>>
         ELSE <<>>

RECURSIVE Contents(_)
Contents(ls) == IF ls = <<>> THEN <<>> ELSE DeltaContent(Head(ls)) \o Contents(Tail(ls))

IsPrefix(a, b) == Len(a) <= Len(b) /\ SubSeq(b, 1, Len(a)) = a

\* C6: for every line sequence the fragment sequence ends normally, at the
\* first sentinel line, having emitted exactly the non-empty delta
\* contents of the lines before it, in wire order, and nothing from a
\* later line.
C6_EndsAtSentinel ==
    /\ IsPrefix(emitted, Contents(BeforeSentinel))
    /\ gen # "error"
    /\ (gen = "done" => emitted = Contents(BeforeSentinel))

\* C10: once the fragment sequence is finished or abandoned, the
\* connection is not held open any more.
C10_ConnectionReleased ==
    gen \in {"done", "abandoned", "error"} => conn # "open"

\* ------------------------------------------------ under SpecPipe
\* The streaming flag the caller map asks for: extra_body's when it gives
\* one, else the top-level one; "unspecified" when neither gives one.
RequestedStream ==
    IF body.eb.kind = "dict" /\ "stream" \in DOMAIN body.eb.d THEN body.eb.d["stream"]
    ELSE IF "stream" \in DOMAIN body.flat THEN body.flat["stream"]
    ELSE "unspecified"

\* C7: for a multimedia model id with the streaming flag unspecified or
\* true (at top level or through extra_body), every payload sent carries
\* stream = false and the response is handled in buffered mode: no
\* fragment sequence is ever handed out.
C7_MediaForcesBuffered ==
    (model_id \in media_models /\ RequestedStream \in {"unspecified", "true"} /\ posts > 0) =>
        /\ "stream" \in DOMAIN request_body
        /\ request_body["stream"] = "false"
        /\ gen = "none"
        /\ result.kind # "generator"
        /\ (pc = "done" => result.kind \in {"text", "error"})

C7_Witness ==
    /\ model_id \in media_models
    /\ body.eb.kind = "dict"
    /\ "stream" \in DOMAIN body.eb.d
    /\ body.eb.d["stream"] = "true"
    /\ "stream" \in DOMAIN body.flat
    /\ body.flat["stream"] = "false"
    /\ pc = "done"
    /\ result.kind = "text"

\* ------------------------------------------------ under SpecCatalog
\* The latest refresh failed: no API key, the request raised, a status
\* other than 200, a body that cannot be read as a dict with a list of
\* dicts, or no entry with a non-empty id.
HasUsableEntry(f) ==
    \E i \in DOMAIN f.data : f.data[i].isdict /\ f.data[i].id \notin {"absent", "", "null"}

RefreshFailed ==
    \/ fetched.kind = "nokey"
    \/ fetched.kind = "exception"
    \/ fetched.kind = "response" /\ fetched.status # 200
    \/ fetched.kind = "response" /\ fetched.status = 200 /\ fetched.body # "list"
    \/ /\ fetched.kind = "response" /\ fetched.status = 200 /\ fetched.body = "list"
       /\ \/ ~HasUsableEntry(fetched)
          \/ \E i \in DOMAIN fetched.data : ~fetched.data[i].isdict

\* C8: after a refresh that failed, the catalog is the static fallback
\* list, same entries in the same order, whatever it held before.
C8_FailedRefreshGivesFallback ==
    RefreshFailed => pipelines = FALLBACK_MODELS

C8_Witness ==
    /\ fetched.kind = "response"
    /\ fetched.status = 401
    /\ previous # FALLBACK_MODELS
    /\ pipelines = FALLBACK_MODELS

\* ------------------------------------------- under SpecPipe, continued
\* C11: no exception reaches the host: neither pipe nor the consumption
\* of the fragment sequence it returned ends in a raised exception, and a
\* finished pipe call has handed back a string or a fragment sequence.
C11_NoExceptionReachesHost ==
    /\ gen # "error"
    /\ (pc = "done" => result.kind \in {"error", "text", "generator"})

\* C12: without a configured API key pipe issues no POST and returns the
\* configuration error at once.
C12_NoKeyNoRequest ==
    POE_API_KEY = "" =>
        /\ posts = 0
        /\ inflight = 0
        /\ pc \in {"idle", "done"}
        /\ gen = "none"
        /\ (pc = "done" => result.kind = "error" /\ result.category = "nokey")

C12_Witness ==
    /\ POE_API_KEY = ""
    /\ pc = "done"
    /\ result.category = "nokey"
    /\ model_id \in media_models

\* C13: the bearer token of the outbound request is the caller's key when
\* the caller has one, and the installation's key otherwise.
C13_CallerKeyWins ==
    bearer # None => bearer = (IF user_key # "" THEN user_key ELSE POE_API_KEY)

\* C17: when the request timed out, pipe returns the timeout message, not
\* the message of the exhausted retries.
C17_TimeoutMessage ==
    (pc = "done" /\ outcomes # <<>> /\ outcomes[Len(outcomes)].exc = "Timeout") =>
        (result.kind = "error" /\ result.category = "timeout")

StandardPart ==
    LET opt == {p \in OPTIONAL_PARAMS \cap DOMAIN body.flat : body.flat[p] # "null"} IN
    [k \in {"model", "messages", "stream"} \cup opt |->
        CASE k = "model" -> model_id
          [] k = "messages" -> messages
          [] k = "stream" -> (IF "stream" \in DOMAIN body.flat THEN body.flat["stream"] ELSE "true")
          [] OTHER -> body.flat[k]]

\* A known key that an extension source has set or overwritten.
TouchedKnownKeys ==
    {k \in STANDARD_PARAMS :
        \/ (k \in DOMAIN request_body) # (k \in DOMAIN StandardPart)
        \/ k \in DOMAIN request_body /\ k \in DOMAIN StandardPart
           /\ request_body[k] # StandardPart[k]}

\* C14 as stated: no extension source sets or overwrites a known key.
C14_ExtensionsNeverTouchKnownKeys ==
    HasBuilt => TouchedKnownKeys = {}

\* C14 amended: flat pass-through never sets or overwrites a known key; a
\* known key differs from what the known-key steps gave it only when the
\* nested extra_body object holds that key, and then it has extra_body's
\* value.
C14_OnlyExtraBodyTouchesKnownKeys ==
    HasBuilt =>
        \A k \in TouchedKnownKeys :
            /\ body.eb.kind = "dict"
            /\ k \in DOMAIN body.eb.d
            /\ k \in DOMAIN request_body
            /\ request_body[k] = body.eb.d[k]

C14_Witness ==
    /\ HasBuilt
    /\ "user" \in DOMAIN body.flat
    /\ "user" \notin DOMAIN request_body
    /\ "reasoning_effort" \in DOMAIN body.flat
    /\ "reasoning_effort" \in DOMAIN request_body
    /\ body.eb.kind = "absent"

\* ---------------------------------------- under SpecCatalog, continued
\* The id/name pairs of the entries with a non-empty id, in order; the
\* name is the id when the entry gives none.
RECURSIVE Pairs(_)
Pairs(data) ==
    IF data = <<>> THEN <<>>
    ELSE LET e == Head(data) IN
         (IF e.isdict /\ e.id \notin {"absent", "", "null"}
          THEN <<[id |-> e.id, name |-> IF e.name = "absent" THEN e.id ELSE e.name]>>
          ELSE <<>>) \o Pairs(Tail(data))

Got200WithUsableEntry ==
    fetched.kind = "response" /\ fetched.status = 200 /\ HasUsableEntry(fetched)

AllEntriesAreObjects == \A i \in DOMAIN fetched.data : fetched.data[i].isdict

\* C15 as stated: the catalog starts as the fallback and after a refresh
\* it is Live, holding the fetched pairs, exactly when that refresh got a
\* 200 with at least one entry with a non-empty id, and the fallback
\* otherwise.
C15_LiveIffUsableEntry ==
    IF fetched.kind = "none" THEN pipelines = FALLBACK_MODELS
    ELSE IF Got200WithUsableEntry THEN pipelines = Pairs(fetched.data)
    ELSE pipelines = FALLBACK_MODELS

\* C15 amended: as above, with Live exactly when the refresh got a 200
\* whose entries are all objects, at least one of them with a non-empty id.
C15_LiveIffUsableObjects ==
    IF fetched.kind = "none" THEN pipelines = FALLBACK_MODELS
    ELSE IF Got200WithUsableEntry /\ AllEntriesAreObjects THEN pipelines = Pairs(fetched.data)
    ELSE pipelines = FALLBACK_MODELS

C15_Witness ==
    /\ Got200WithUsableEntry
    /\ AllEntriesAreObjects
    /\ \E i \in DOMAIN fetched.data : fetched.data[i].id = ""
    /\ previous # FALLBACK_MODELS
    /\ previous # pipelines

\* C16: _refresh_models never lets an exception out, and it leaves the
\* catalog as the fetched list or as the fallback.
C16_RefreshNeverRaises ==
    /\ escaped = None
    /\ \/ pipelines = FALLBACK_MODELS
       \/ fetched.kind = "response" /\ pipelines = Pairs(fetched.data)

C16_Witness ==
    /\ fetched.kind = "response"
    /\ fetched.status = 200
    /\ fetched.body = "list"
    /\ HasUsableEntry(fetched)
    /\ ~AllEntriesAreObjects
    /\ escaped = None
    /\ pipelines = FALLBACK_MODELS

\* ----------------------------------------- under SpecStream, continued
\* A "data:" line whose payload is neither the sentinel nor valid JSON.
IsMalformed(line) ==
    StartsWithData(line) /\ ~IsSentinel(line) /\ ~JsonLoads(PayloadText(DataStr(line))).valid

NotMalformed(line) == ~IsMalformed(line)

\* The generator run to its end on ls: the fragments and how it ends.
RECURSIVE Drain(_, _, _)
Drain(ls, c, acc) ==
    LET r == RunToYield(ls, c) IN
    IF r.kind = "yield" THEN Drain(ls, r.cursor, Append(acc, r.frag))
    ELSE [frags |-> acc, end |-> IF r.kind = "raise" THEN "error" ELSE "done"]

\* C19: malformed lines neither emit nor end the sequence: what the
\* generator emits, and how it ends, is what it would do on the same lines
\* with the malformed ones taken out.
C19_MalformedLinesAreSkipped ==
    LET ref == Drain(SelectSeq(lines, NotMalformed), 0, <<>>) IN
    /\ IsPrefix(emitted, ref.frags)
    /\ (gen \in {"done", "error"} => emitted = ref.frags /\ gen = ref.end)

C19_Witness ==
    /\ gen = "done"
    /\ \E i, j \in 1..cursor :
        /\ i < j
        /\ IsMalformed(lines[i])
        /\ DeltaContent(lines[j]) # <<>>
    /\ emitted # <<>>

\* C20: no emitted fragment is empty, and the fragments are exactly the
\* non-empty delta contents of the lines read so far, one per line that
\* has one: lines without choices, delta or content emit nothing.
C20_NoEmptyFragment ==
    /\ \A i \in DOMAIN emitted : emitted[i] \notin {"", "null"}
    /\ emitted = Contents(SubSeq(lines, 1, cursor))

C20_Witness ==
    /\ gen = "done"
    /\ cursor = Len(lines)
    /\ \E i \in DOMAIN lines : lines[i] = <<"data:", " ", T_emptyContent>>
    /\ \E i \in DOMAIN lines : lines[i] = <<"data:", " ", T_nullContent>>
    /\ emitted = <<"Hi">>

\* ------------------------------------------------ under SpecRetry
\* C21: the attempts of one call are strictly sequential with exponential
\* backoff: at most one request is in flight at any time, the k-th sleep of
\* the call lasts exactly 2^(k-1) seconds (the sleep after the failure of
\* attempt i, counted from 0, is 2^i), exactly one sleep lies between two
\* consecutive attempts, and no sleep follows the last attempt.
C21_SequentialExponentialBackoff ==
    /\ inflight <= 1
    /\ (inflight = 1) = (pc = "inflight")
    /\ \A k \in DOMAIN sleeps : sleeps[k] = 2 ^ (k - 1)
    /\ (pc = "inflight" => Len(sleeps) = posts - 1)
    /\ (pc = "backoff" => Len(sleeps) = posts - 1 /\ posts < MAX_RETRIES)
    /\ (pc \in {"returned", "raised"} /\ posts >= 1 => Len(sleeps) = posts - 1)
    /\ (pc = "loop" /\ attempt < MAX_RETRIES => Len(sleeps) = posts)
    /\ (pc = "loop" /\ attempt >= MAX_RETRIES /\ posts >= 1 => Len(sleeps) = posts - 1)
    /\ (posts = 0 => sleeps = <<>>)

C21_Witness ==
    /\ pc = "raised"
    /\ posts = 3
    /\ sleeps = <<1, 2>>

\* ------------------------------------------------ under SpecBuild
\* The value a top-level key has in the payload when the claim of C22 is
\* followed: the value already set by the base fields or by the nested
\* extra_body object, and the caller's flat value otherwise.
PassedValue(k) ==
    IF body.eb.kind = "dict" /\ k \in DOMAIN body.eb.d THEN body.eb.d[k] ELSE body.flat[k]

\* C22: every top-level key of the caller map that is neither in the
\* allow-list (temperature, max_tokens, top_p, frequency_penalty,
\* presence_penalty, stop) nor the extension-object key itself is in the
\* built payload, with the caller's flat value when nothing had set the key
\* before and with the value already present otherwise.
C22_OtherKeysPassThrough ==
    HasBuilt =>
        \A k \in (DOMAIN body.flat) \ OPTIONAL_PARAMS :
            /\ k \in DOMAIN request_body
            /\ request_body[k] = PassedValue(k)

\* ------------------------------------------------ under SpecBuild
BaseFields == {"model", "messages", "stream"}

\* The keys the nested extra_body object sets.
ExtraBodyKeys == IF body.eb.kind = "dict" THEN DOMAIN body.eb.d ELSE {}

\* What a base field is before any extension is merged in: the resolved
\* model id, the message list, the caller's top-level streaming flag or
\* true when there is none.
BaseValue(k) ==
    CASE k = "model" -> model_id
      [] k = "messages" -> messages
      [] OTHER -> IF "stream" \in DOMAIN body.flat THEN body.flat["stream"] ELSE "true"

C26_AtLeastOnePost ==
    /\ POE_API_KEY # ""
    /\ posts <= MAX_RETRIES
    /\ (pc \in {"returned", "raised"} => posts >= 1)

\* ------------------------------------------------ under SpecPipe
\* pipe has built the payload of this call.
PayloadBuilt == request_body # EmptyDict

\* C27: the mode in which pipe handles the response agrees with the payload
\* it sent: the local streaming decision is truthy exactly when the
\* payload's stream value (after extra_body merging and the media
\* override) is truthy, and an answer that is no error status is handed out
\* as a fragment sequence in exactly that case and parsed as one buffered
\* body otherwise.
C27_ModeAgreesWithPayload ==
    PayloadBuilt =>
        /\ "stream" \in DOMAIN request_body
        /\ Truthy(is_streaming) = Truthy(request_body["stream"])
        /\ (pc = "done" /\ response # NoResponse /\ ~IsErrorStatus(response.status) =>
                /\ (result.kind = "generator") = Truthy(request_body["stream"])
                /\ (gen # "none") = Truthy(request_body["stream"])
                /\ (~Truthy(request_body["stream"]) =>
                        \/ result.kind = "text"
                        \/ result = Result("error", "exception", 0)))

C27_Witness ==
    /\ pc = "done"
    /\ PayloadBuilt
    /\ model_id \in media_models
    /\ "stream" \in DOMAIN body.flat /\ body.flat["stream"] = "false"
    /\ body.eb.kind = "dict" /\ "stream" \in DOMAIN body.eb.d /\ body.eb.d["stream"] = "true"
    /\ request_body["stream"] = "false"
    /\ result.kind = "text"

\* ------------------------------------------------ under SpecStream
\* A data line that is no sentinel and whose payload is valid JSON.
IsValidJsonLine(line) ==
    StartsWithData(line) /\ ~IsSentinel(line) /\ JsonLoads(PayloadText(DataStr(line))).valid

\* C25: a data line whose payload is valid JSON of any shape (an object
\* without choices, a value that is no object, a choice whose delta is
\* null) never ends the fragment sequence with an error: the sequence goes
\* on after it, and the lines read so far have emitted at most one fragment
\* each.
C25_ValidJsonNeverEndsInError ==
    /\ Len(emitted) <= cursor
    /\ \A i \in 1..cursor :
        IsValidJsonLine(lines[i]) => ~(gen = "error" /\ i = cursor)

C23_ReaderNeverSeesPartialCatalog ==
    /\ pipelines \in {previous, RefreshModels(previous, POE_API_KEY, fetched)}
    /\ (rpc = "looping" => pipelines = previous)
    /\ (rpc = "idle" => pipelines = RefreshModels(previous, POE_API_KEY, fetched))
    /\ (observed.seen =>
            observed.catalog \in {previous, RefreshModels(previous, POE_API_KEY, fetched)})

C23_Witness ==
    /\ rpc = "looping"
    /\ rpos = 1
    /\ Len(fetched.data) = 2
    /\ models # <<>>
    /\ observed.seen
    /\ observed.catalog = previous
    /\ Len(RefreshModels(previous, POE_API_KEY, fetched)) = 2

\* ------------------------------------------------ under SpecTools
\* Neither a user-level nor a tool-level token is there.
NoToken == user_pat \in {"absent", ""} /\ pat = ""

\* The request of the latest call ended in a requests exception: the
\* transport raised, or response.json() raised requests' JSONDecodeError.
RequestExceptionOccurred ==
    \/ jresult.outcome.kind = "exception"
    \/ /\ jresult.outcome.kind = "response"
       /\ jresult.outcome.status = 200
       /\ jresult.outcome.text = "notjson"
       /\ jresult.outcome.json = "RequestException"

IsInProgress(e) == e.type = "status" /\ ~e.done
IsTerminal(e) == e.type = "status" /\ e.done

\* C30: a jira_* tool called with an emitter starts its events with one
\* in-progress status and ends them with exactly one terminal status
\* (done, success or error) on every path: the error result, the
\* exception, the early return of jira_update_issue without fields.  No
\* event follows the terminal status, and no error status is emitted that
\* is not done.  Without an emitter there are no events.
C30_OneTerminalStatus ==
    /\ (~has_emitter => events = <<>>)
    /\ (has_emitter /\ tool # "none" =>
            /\ events # <<>>
            /\ IsInProgress(events[1])
            /\ \A i \in DOMAIN events :
                /\ (IsInProgress(events[i]) => i = 1)
                /\ (IsTerminal(events[i]) => i = Len(events) /\ jpc = "idle")
                /\ (events[i].type = "status" /\ events[i].icon = "error" => events[i].done)
                /\ (events[i].type = "status" =>
                        events[i].status = IF events[i].done THEN "complete" ELSE "in_progress")
            /\ (jpc = "idle" => IsTerminal(events[Len(events)])))

C30_Witness ==
    /\ tool = "jira_update_issue"
    /\ has_emitter
    /\ jpc = "idle"
    /\ UpdateData(args) = "empty"
    /\ jsent = 0
    /\ events = <<StatusEvent(FALSE, FALSE), StatusEvent(TRUE, TRUE)>>

====
